---- MODULE Spec2Model ----
(***************************************************************************)
(* A model of nfa.cc: the finite-automaton builders (FABase, NFA, DFA),    *)
(* the epsilon closure, the NFA and DFA simulators, the subset             *)
(* construction NFA::lower, the code emitted by JitFunction, and the       *)
(* regex combinators with their merge splice.                              *)
(*                                                                         *)
(* State identifiers are 0-based as in the source; m_states is a sequence, *)
(* so state s is m_states[s + 1].  An NFA edge is the pair <<cond, to>>    *)
(* (std::pair<std::optional<char>, int>), with cond = Eps for nullopt.     *)
(* A DFA edge map (std::map<char, int>) is a function from the bytes it    *)
(* holds to targets.  The build is the one the source names, with          *)
(* assertions enabled: a failed assert and an uncaught std::out_of_range   *)
(* both end the program, which the model records in call.abort.            *)
(***************************************************************************)
EXTENDS Integers, Sequences, FiniteSets, TLC

VARIABLES nfa, dfa, call, expr, run, jit

vars == <<nfa, dfa, call, expr, run, jit>>

\* ------------------------------------------------------------------ bounds
MaxStates == 2
MaxEdges == 2
MaxLen == 2
MaxDfaEdges == 2
MaxOps == 3
MaxRegexLen == 4
MaxMergedStates == 11
MaxAddrs == 2
MaxLowerOps == 2
MaxEmitters == 3

\* the bytes of the model, in the order of char (the order of std::map)
AlphabetSeq == <<"a", "b">>
Alphabet == {AlphabetSeq[i] : i \in 1 .. Len(AlphabetSeq)}
Eps == "eps"
Labels == Alphabet \cup {Eps}

StateRefs == 0 .. (MaxStates - 1)

WordsUpTo(n) == UNION {[1 .. k -> Alphabet] : k \in 0 .. n}
Words == WordsUpTo(MaxLen)

\* ------------------------------------------------------------ FABase
\* m_start before setStart
NoStart == -1

\* marks a state set in which vector::at threw std::out_of_range
Thrown == -2

EmptyFA == [m_states |-> <<>>, m_start |-> NoStart, m_match |-> {}]

Ids(fa) == 0 .. (Len(fa.m_states) - 1)

EdgesOf(fa, s) == fa.m_states[s + 1]

\* the new state's edge container is empty: <<>> is both the empty
\* vector of an NFA state and the empty map of a DFA state
addState(fa) == [fa EXCEPT !.m_states = Append(@, <<>>)]

setStart(fa, start) == [fa EXCEPT !.m_start = start]

\* the assert of addMatch holds: the insertion takes place
addMatch_inserts(fa, match) == match \notin fa.m_match

\* an insert that puts match in the place of the set
addMatch_replace(fa, match) == [fa EXCEPT !.m_match = {match}]

\* m_match.insert(match), for a match that is not yet in m_match
addMatch(fa, match) == [fa EXCEPT !.m_match = @ \cup {match}]

RangeOf(seq) == {seq[i] : i \in 1 .. Len(seq)}

NumEdges(fa) ==
    LET RECURSIVE sum(_)
        sum(i) == IF i = 0 THEN 0 ELSE Len(fa.m_states[i]) + sum(i - 1)
    IN sum(Len(fa.m_states))

NumDfaEdges(fa) ==
    LET RECURSIVE sum(_)
        sum(i) == IF i = 0 THEN 0
                  ELSE Cardinality(DOMAIN fa.m_states[i]) + sum(i - 1)
    IN sum(Len(fa.m_states))

\* ------------------------------------------------------------ NFA
NFAaddEdge(fa, from, cond, to) ==
    [fa EXCEPT !.m_states[from + 1] = Append(@, <<cond, to>>)]

\* every edge target of the NFA is one of its states
WellFormed(fa) ==
    \A s \in Ids(fa) : \A e \in RangeOf(EdgesOf(fa, s)) : e[2] \in Ids(fa)

Min(S) == CHOOSE x \in S : \A y \in S : x <= y

RECURSIVE FollowEpsilons_recurse(_, _, _)
RECURSIVE FollowEpsilons_edges(_, _, _, _)

\* the lambda recurse of FollowEpsilons: returns the new stateset
FollowEpsilons_recurse(fa, stateset, state) ==
    IF Thrown \in stateset THEN stateset
    ELSE IF state \in stateset THEN stateset
    ELSE IF state \notin Ids(fa) THEN stateset \cup {state, Thrown}
    ELSE FollowEpsilons_edges(fa, stateset \cup {state}, EdgesOf(fa, state), 1)

\* the for loop over the edges of one state, from edge i on
FollowEpsilons_edges(fa, stateset, edges, i) ==
    IF i > Len(edges) \/ Thrown \in stateset THEN stateset
    ELSE FollowEpsilons_edges(fa,
            IF edges[i][1] = Eps
            THEN FollowEpsilons_recurse(fa, stateset, edges[i][2])
            ELSE stateset,
            edges, i + 1)

RECURSIVE FollowEpsilons_loop(_, _, _)
\* the for loop over copy, in the ascending order of std::set
FollowEpsilons_loop(fa, stateset, copy) ==
    IF copy = {} \/ Thrown \in stateset THEN stateset
    ELSE LET state == Min(copy)
         IN FollowEpsilons_loop(fa, FollowEpsilons_recurse(fa, stateset, state),
                                copy \ {state})

\* a closure that does not empty stateset before the loop over copy
FollowEpsilons_noClear(fa, stateset) == FollowEpsilons_loop(fa, stateset, stateset)

\* a closure that keeps the states it reached and not the ones it was given
FollowEpsilons_noRoots(fa, stateset) ==
    FollowEpsilons_loop(fa, {},
        UNION {{EdgesOf(fa, s)[i][2] :
                    i \in {j \in 1 .. Len(EdgesOf(fa, s)) : EdgesOf(fa, s)[j][1] = Eps}}
                : s \in stateset \cap Ids(fa)})

\* copy takes the members and stateset starts empty
FollowEpsilons(fa, stateset) == FollowEpsilons_loop(fa, {}, stateset)

\* the targets of the edges labelled c that leave a state of currentStates
NextStates(fa, currentStates, c) ==
    UNION {{EdgesOf(fa, s)[i][2] :
                i \in {j \in 1 .. Len(EdgesOf(fa, s)) : EdgesOf(fa, s)[j][1] = c}}
            : s \in currentStates}

RECURSIVE NFAtestMatch_loop(_, _, _, _)
\* a simulation that does not close nextStates under epsilon edges
NFAtestMatch_loop_noClosure(fa, currentStates, sv, i) ==
    IF Thrown \in currentStates THEN [res |-> FALSE, abort |-> "out_of_range"]
    ELSE IF i > Len(sv)
    THEN [res |-> \E state \in currentStates : state \in fa.m_match,
          abort |-> "none"]
    ELSE IF ~(currentStates \subseteq Ids(fa))
    THEN [res |-> FALSE, abort |-> "out_of_range"]
    ELSE NFAtestMatch_loop(fa, NextStates(fa, currentStates, sv[i]), sv, i + 1)

\* the for loop over the bytes of sv, from byte i on, and the loop over
\* currentStates after it; m_states.at(state) throws for a state that is
\* not there
NFAtestMatch_loop(fa, currentStates, sv, i) ==
    IF Thrown \in currentStates THEN [res |-> FALSE, abort |-> "out_of_range"]
    ELSE IF i > Len(sv)
    THEN [res |-> \E state \in currentStates : state \in fa.m_match,
          abort |-> "none"]
    ELSE IF ~(currentStates \subseteq Ids(fa))
    THEN [res |-> FALSE, abort |-> "out_of_range"]
    ELSE NFAtestMatch_loop(fa,
            FollowEpsilons(fa, NextStates(fa, currentStates, sv[i])), sv, i + 1)

\* a testMatch without the three asserts at its head
NFAtestMatch_noAsserts(fa, sv) ==
    NFAtestMatch_loop(fa, FollowEpsilons(fa, {fa.m_start}), sv, 1)

NFAtestMatch(fa, sv) ==
    IF fa.m_states = <<>> \/ fa.m_start = NoStart \/ fa.m_match = {}
    THEN [res |-> FALSE, abort |-> "assert"]
    ELSE NFAtestMatch_loop(fa, FollowEpsilons(fa, {fa.m_start}), sv, 1)

\* ------------------------------------------------------------ DFA
\* DFA::addEdge: the assert fails when the map of from already has cond
DFAaddEdge(fa, from, cond, to) ==
    IF from \notin Ids(fa) THEN [fa |-> fa, abort |-> "out_of_range"]
    ELSE IF cond \in DOMAIN EdgesOf(fa, from)
    THEN [fa |-> fa, abort |-> "duplicate edge"]
    ELSE [fa |-> [fa EXCEPT !.m_states[from + 1] = (cond :> to) @@ @],
          abort |-> "none"]

RECURSIVE DFAtestMatch_loop(_, _, _, _)
\* a walk that leaves the loop at a missing edge and answers for the state
\* it stands in
DFAtestMatch_loop_break(fa, state, sv, i) ==
    IF i > Len(sv) THEN [res |-> state \in fa.m_match, abort |-> "none"]
    ELSE IF state \notin Ids(fa) THEN [res |-> FALSE, abort |-> "out_of_range"]
    ELSE IF sv[i] \notin DOMAIN EdgesOf(fa, state)
    THEN [res |-> state \in fa.m_match, abort |-> "none"]
    ELSE DFAtestMatch_loop(fa, EdgesOf(fa, state)[sv[i]], sv, i + 1)

\* the for loop over the bytes of sv, from byte i on
DFAtestMatch_loop(fa, state, sv, i) ==
    IF i > Len(sv) THEN [res |-> state \in fa.m_match, abort |-> "none"]
    ELSE IF state \notin Ids(fa) THEN [res |-> FALSE, abort |-> "out_of_range"]
    ELSE IF sv[i] \notin DOMAIN EdgesOf(fa, state)
    THEN [res |-> FALSE, abort |-> "none"]
    ELSE DFAtestMatch_loop(fa, EdgesOf(fa, state)[sv[i]], sv, i + 1)

DFAtestMatch(fa, sv) ==
    IF fa.m_states = <<>> \/ fa.m_start = NoStart \/ fa.m_match = {}
    THEN [res |-> FALSE, abort |-> "assert"]
    ELSE DFAtestMatch_loop(fa, fa.m_start, sv, 1)

\* ------------------------------------------------------------ JitFunction
\* The C source the constructor writes, as its blocks state0, state1, ...:
\* block i returns accept when no input is left, and otherwise tries its
\* jumps, one per edge of state i in the order of std::map, in turn.
Emit(fa) ==
    [i \in 1 .. Len(fa.m_states) |->
        [accept |-> IF (i - 1) \in fa.m_match THEN 1 ELSE 0,
         jumps |-> LET keys == SelectSeq(AlphabetSeq,
                                   LAMBDA c : c \in DOMAIN fa.m_states[i])
                   IN [k \in 1 .. Len(keys) |-> <<keys[k], fa.m_states[i][keys[k]]>>]]]

\* gcc rejects a goto to a label that no block defines; then no library is
\* built, dlopen fails and the constructor exits
Loadable(code) ==
    \A i \in 1 .. Len(code) : \A k \in 1 .. Len(code[i].jumps) :
        code[i].jumps[k][2] \in 0 .. (Len(code) - 1)

RECURSIVE Jitted_block(_, _, _, _)
RECURSIVE Jitted_jumps(_, _, _, _, _)

\* the block of label state<i>, with the input from byte pos on
Jitted_block(code, i, sv, pos) ==
    IF pos > Len(sv) THEN code[i + 1].accept
    ELSE Jitted_jumps(code, i, 1, sv, pos)

\* the if (ch == ..) goto ..; statements of block i from the k-th on, ch
\* being byte pos of the input
Jitted_jumps(code, i, k, sv, pos) ==
    IF k > Len(code[i + 1].jumps) THEN 0
    ELSE IF sv[pos] = code[i + 1].jumps[k][1]
    THEN Jitted_block(code, code[i + 1].jumps[k][2], sv, pos + 1)
    ELSE Jitted_jumps(code, i, k + 1, sv, pos)

\* jitted(c, len): execution enters at the first block
Jitted(code, sv) == Jitted_block(code, 0, sv, 1)

\* what JitFunction jfn(dfa); jfn(sv) can give.  With no block at all
\* control reaches the end of jitted without a return statement and the
\* value the caller reads is indeterminate.
JitOutcomes(fa, sv) ==
    LET code == Emit(fa)
    IN IF ~Loadable(code) THEN {[res |-> FALSE, abort |-> "exit"]}
       ELSE IF code = <<>>
       THEN {[res |-> b, abort |-> "none"] : b \in BOOLEAN}
       ELSE {[res |-> Jitted(code, sv) # 0, abort |-> "none"]}

\* ------------------------------------------------------------ NFA::lower
\* The working state of lower is L = [dfa, cache, abort]: the DFA under
\* construction, the cache from closure sets to DFA states, and the
\* failure that ended the run ("none" while it runs).  The order in which
\* the unordered_map newEdges hands out its keys is left unspecified by the
\* standard and may differ from one newEdges to the next: ord gives, for
\* each closure set that has edges on two bytes or more, the permutation
\* of the bytes its newEdges is iterated in.  The cache is an unordered_map
\* keyed by std::set: two keys are the same key when the sets are equal,
\* and the hasher only picks the bucket (its int arithmetic wraps in the
\* build of the source), so the cache is a function on sets.

Perms(seq) ==
    {p \in [1 .. Len(seq) -> {seq[i] : i \in 1 .. Len(seq)}] :
        \A i, j \in 1 .. Len(seq) : i # j => p[i] # p[j]}

RECURSIVE lower_match(_, _, _, _)
\* the addMatch calls of the loop over states, in the ascending order of
\* std::set: FABase::addMatch asserts that the insertion took place
lower_match(fa, L, newState, states) ==
    IF states = {} \/ L.abort # "none" THEN L
    ELSE LET state == Min(states)
             L1 == IF state \notin fa.m_match THEN L
                   ELSE IF ~addMatch_inserts(L.dfa, newState)
                   THEN [L EXCEPT !.abort = "assert"]
                   ELSE [L EXCEPT !.dfa = addMatch(@, newState)]
         IN lower_match(fa, L1, newState, states \ {state})

\* the bytes c that label an edge leaving a state of states
lower_bytes(fa, states) == {c \in Alphabet : NextStates(fa, states, c) # {}}

\* the closure sets lower comes to, from the closure of the start on; a set
\* in which vector::at threw has no successor
lower_sets(fa) ==
    LET next(S) == IF Thrown \in S \/ ~(S \subseteq Ids(fa)) THEN {}
                   ELSE {FollowEpsilons(fa, NextStates(fa, S, c))
                            : c \in lower_bytes(fa, S)}
        RECURSIVE grow(_, _)
        grow(T, new) ==
            IF new = {} THEN T
            ELSE LET T2 == T \cup new
                 IN grow(T2, UNION {next(S) : S \in new} \ T2)
    IN grow({}, {FollowEpsilons(fa, {fa.m_start})})

\* the iteration orders lower can meet on fa: one permutation for every
\* closure set whose newEdges holds two keys or more (there is none when
\* the edges of fa bear one byte or none)
Ords(fa) ==
    [(IF \A c \in Alphabet : \E s \in Ids(fa) :
            \E i \in 1 .. Len(EdgesOf(fa, s)) : EdgesOf(fa, s)[i][1] = c
      THEN {S \in lower_sets(fa) : /\ Thrown \notin S
                                    /\ S \subseteq Ids(fa)
                                    /\ Cardinality(lower_bytes(fa, S)) >= 2}
      ELSE {})
        -> Perms(AlphabetSeq)]

\* the order of the newEdges of states: with one key or none there is one
lower_order(states, ord) ==
    IF states \in DOMAIN ord THEN ord[states] ELSE AlphabetSeq

\* a newEdges that keeps one entry per edge: a byte with two edges or more
\* comes up again
lower_newEdgeKeys_perEdge(fa, states, ord) ==
    LET keys == SelectSeq(lower_order(states, ord),
                          LAMBDA c : NextStates(fa, states, c) # {})
        many(c) == \E s, t \in states :
                      \E i \in 1 .. Len(EdgesOf(fa, s)), j \in 1 .. Len(EdgesOf(fa, t)) :
                          /\ <<s, i>> # <<t, j>>
                          /\ EdgesOf(fa, s)[i][1] = c
                          /\ EdgesOf(fa, t)[j][1] = c
    IN keys \o SelectSeq(keys, many)

\* the keys of newEdges in the order the loop over newEdges visits them:
\* one entry per byte that labels an edge leaving a state of states
lower_newEdgeKeys(fa, states, ord) ==
    SelectSeq(lower_order(states, ord), LAMBDA c : NextStates(fa, states, c) # {})

RECURSIVE lower_recurse(_, _, _, _)
RECURSIVE lower_edges(_, _, _, _, _, _, _)

\* a loop over newEdges that ends after the first key it visits
lower_edges_firstOnly(fa, L, newState, states, keys, i, ord) ==
    IF i > 1 \/ i > Len(keys) \/ L.abort # "none" THEN L
    ELSE LET r == lower_recurse(fa, NextStates(fa, states, keys[i]), L, ord)
             e == DFAaddEdge(r.L.dfa, newState, keys[i], r.ret)
             L1 == IF r.L.abort # "none" THEN r.L
                   ELSE [r.L EXCEPT !.dfa = e.fa, !.abort = e.abort]
         IN lower_edges(fa, L1, newState, states, keys, i + 1, ord)

\* the lambda recurse of lower: returns [L, ret]
lower_recurse(fa, states0, L, ord) ==
    LET states == FollowEpsilons(fa, states0)
    IN IF Thrown \in states \/ ~(states \subseteq Ids(fa))
       THEN [L |-> [L EXCEPT !.abort = "out_of_range"], ret |-> NoStart]
       ELSE IF states \in DOMAIN L.cache
       THEN [L |-> L, ret |-> L.cache[states]]
       ELSE LET newState == Len(L.dfa.m_states)
                L1 == [L EXCEPT !.dfa = addState(@),
                                !.cache = (states :> newState) @@ @]
                L2 == lower_match(fa, L1, newState, states)
                L3 == lower_edges(fa, L2, newState, states,
                                  lower_newEdgeKeys(fa, states, ord), 1, ord)
            IN [L |-> L3, ret |-> newState]

\* the loop over newEdges, from its i-th key on
lower_edges(fa, L, newState, states, keys, i, ord) ==
    IF i > Len(keys) \/ L.abort # "none" THEN L
    ELSE LET r == lower_recurse(fa, NextStates(fa, states, keys[i]), L, ord)
             e == DFAaddEdge(r.L.dfa, newState, keys[i], r.ret)
             L1 == IF r.L.abort # "none" THEN r.L
                   ELSE [r.L EXCEPT !.dfa = e.fa, !.abort = e.abort]
         IN lower_edges(fa, L1, newState, states, keys, i + 1, ord)

\* a lower that returns the DFA without setting its start
lower_noSetStart(fa, ord) ==
    lower_recurse(fa, {fa.m_start},
                  [dfa |-> EmptyFA, cache |-> <<>>, abort |-> "none"], ord).L

lower(fa, ord) ==
    LET r == lower_recurse(fa, {fa.m_start},
                           [dfa |-> EmptyFA, cache |-> <<>>, abort |-> "none"], ord)
    IN IF r.L.abort # "none" THEN r.L
       ELSE [r.L EXCEPT !.dfa = setStart(@, r.ret)]

\* ------------------------------------------------------------ merge
\* a splice that links only the first accept state of src to the exit
merge_splice_oneExit(dst, dstref, src) ==
    LET n == Len(src.m_states)
        base == Len(dst.m_states)
        copied == [i \in 1 .. n |->
                     [k \in 1 .. Len(src.m_states[i]) |->
                         <<src.m_states[i][k][1], base + src.m_states[i][k][2]>>]]
        d1 == [dst EXCEPT !.m_states = @ \o copied]
        d2 == NFAaddEdge(d1, dstref, Eps, base + src.m_start)
        d3 == addState(d2)
    IN IF src.m_match = {} THEN d3
       ELSE NFAaddEdge(d3, base + Min(src.m_match), Eps, base + n)

\* The states and edges of dst after merge(dst, dstref, src).  newEdges maps
\* the src state i to the state dst.addState() returned for it.
merge_splice(dst, dstref, src) ==
    LET n == Len(src.m_states)
        base == Len(dst.m_states)
        newEdges == [i \in Ids(src) |-> base + i]
        \* first loop: one new state per src state
        \* second loop: the edges of src, renumbered, in their order
        copied == [i \in 1 .. n |->
                     [k \in 1 .. Len(src.m_states[i]) |->
                         <<src.m_states[i][k][1], newEdges[src.m_states[i][k][2]]>>]]
        d1 == [dst EXCEPT !.m_states = @ \o copied]
        \* map dstRef to the start node
        d2 == NFAaddEdge(d1, dstref, Eps, newEdges[src.m_start])
        \* map the matching nodes to one node
        d3 == addState(d2)
        matchsrc == Len(d3.m_states) - 1
    IN [d3 EXCEPT !.m_states =
           [s \in 1 .. Len(d3.m_states) |->
               IF (s - 1 - base) \in src.m_match
               THEN Append(d3.m_states[s], <<Eps, matchsrc>>)
               ELSE d3.m_states[s]]]

\* newEdges.at and m_states.at throw std::out_of_range for a state that is
\* not there: an edge target, the start or an accept state of src that is
\* no state of src, a dstref that is no state of dst once the copies are in
merge_throws(dst, dstref, src) ==
    \/ ~WellFormed(src)
    \/ src.m_start \notin Ids(src)
    \/ dstref \notin 0 .. (Len(dst.m_states) + Len(src.m_states) - 1)
    \/ ~(src.m_match \subseteq Ids(src))

\* a merge that also marks the exit state as accepting in dst
merge_marksExit(dst, dstref, src) ==
    IF merge_throws(dst, dstref, src)
    THEN [fa |-> dst, ret |-> NoStart, abort |-> "out_of_range"]
    ELSE LET matchsrc == Len(dst.m_states) + Len(src.m_states)
         IN [fa |-> addMatch(merge_splice(dst, dstref, src), matchsrc),
             ret |-> matchsrc, abort |-> "none"]

\* merge(dst, dstref, src): returns [fa, ret, abort], fa being dst after the
\* call and ret the returned state matchsrc, the last state added
merge(dst, dstref, src) ==
    IF merge_throws(dst, dstref, src)
    THEN [fa |-> dst, ret |-> NoStart, abort |-> "out_of_range"]
    ELSE [fa |-> merge_splice(dst, dstref, src),
          ret |-> Len(dst.m_states) + Len(src.m_states),
          abort |-> "none"]

\* ------------------------------------------------------------ combinators
\* An expression is <<"Char", c>>, <<"And", a, b>>, <<"Or", a, b>>,
\* <<"Maybe", a>> or <<"OneOrMore", a>>.  The operators below take the NFAs
\* of the operands, which toNFA builds first.

CharToNFA(c) ==
    LET n1 == addState(EmptyFA)
        start == Len(n1.m_states) - 1
        n2 == setStart(n1, start)
        n3 == addState(n2)
        match == Len(n3.m_states) - 1
        n4 == addMatch(n3, match)
    IN NFAaddEdge(n4, start, c, match)

\* the fresh NFA with its start state that every combinator begins with
FreshStart == setStart(addState(EmptyFA), 0)

AndToNFA(a, b) ==
    LET mid == merge(FreshStart, 0, a)
        match == merge(mid.fa, mid.ret, b)
    IN addMatch(match.fa, match.ret)

OrToNFA(a, b) ==
    LET matcha == merge(FreshStart, 0, a)
        matchb == merge(matcha.fa, 0, b)
    IN addMatch(addMatch(matchb.fa, matcha.ret), matchb.ret)

MaybeToNFA(a) ==
    LET matchit == merge(FreshStart, 0, a)
    IN NFAaddEdge(addMatch(matchit.fa, matchit.ret), 0, Eps, matchit.ret)

\* a OneOrMore whose extra edge runs from start to the exit, as in Maybe
OneOrMoreToNFA_asMaybe(a) ==
    LET matchit == merge(FreshStart, 0, a)
    IN NFAaddEdge(addMatch(matchit.fa, matchit.ret), 0, Eps, matchit.ret)

OneOrMoreToNFA(a) ==
    LET matchit == merge(FreshStart, 0, a)
    IN NFAaddEdge(addMatch(matchit.fa, matchit.ret), matchit.ret, Eps, 0)

RECURSIVE toNFA(_)
toNFA(e) ==
    CASE e[1] = "Char" -> CharToNFA(e[2])
      [] e[1] = "And" -> AndToNFA(toNFA(e[2]), toNFA(e[3]))
      [] e[1] = "Or" -> OrToNFA(toNFA(e[2]), toNFA(e[3]))
      [] e[1] = "Maybe" -> MaybeToNFA(toNFA(e[2]))
      [] e[1] = "OneOrMore" -> OneOrMoreToNFA(toNFA(e[2]))

\* the expressions with exactly k combinators above their Chars
RECURSIVE ExprsOfSize(_)
ExprsOfSize(k) ==
    IF k = 0 THEN {<<"Char", c>> : c \in Alphabet}
    ELSE {<<u, a>> : u \in {"Maybe", "OneOrMore"}, a \in ExprsOfSize(k - 1)}
         \cup UNION {{<<o, a, b>> : o \in {"And", "Or"},
                                    a \in ExprsOfSize(i),
                                    b \in ExprsOfSize(k - 1 - i)}
                        : i \in 0 .. (k - 1)}

Exprs == UNION {ExprsOfSize(k) : k \in 0 .. MaxOps}

\* the parser of regexTests, a(bb)+a, and the inputs it asserts on
RegexTestsParser ==
    <<"And",
        <<"And", <<"Char", "a">>,
                 <<"OneOrMore", <<"And", <<"Char", "b">>, <<"Char", "b">>>>>>>>,
        <<"Char", "a">>>>

RegexTestsInputs ==
    {<<"a", "a">>, <<"a", "b", "a">>, <<"a", "b", "b", "a">>,
     <<"a", "b", "b", "b", "a">>, <<"a", "b", "b", "b", "b", "a">>}

RegexWords == WordsUpTo(MaxRegexLen) \cup RegexTestsInputs

\* ------------------------------------------------------------ calls
NoCall == [op |-> "none", arg |-> <<>>, res |-> <<>>, abort |-> "none"]

Idle == call.op = "none"

Called(op, arg, res, abort) ==
    call' = [op |-> op, arg |-> arg, res |-> res, abort |-> abort]

\* the addresses a DFA object can have
Addrs == 1 .. MaxAddrs

\* std::ofstream and gcc -o both put a file in the place of one of that name
JitWrite(disk, addr, ext, by) ==
    {f \in disk : ~(f.addr = addr /\ f.ext = ext)}
        \cup {[addr |-> addr, ext |-> ext, by |-> by]}

\* The constructor JitFunction(d), d being the DFA object at addr, run in
\* the process state j on a host env ("ok", no shared object comes out of
\* the compiler run, dlopen fails, or dlsym finds no jitted).  dlopen of a
\* name under which a library is still loaded, through an emitter that has
\* its handle open, hands back that library without reading the disk.
JitCtor(j, addr, d, env) ==
    LET id == j.made + 1
        disk1 == JitWrite(j.disk, addr, "c", id)
        compiled == env # "nocompiler" /\ Loadable(Emit(d))
        disk2 == IF compiled THEN JitWrite(disk1, addr, "dylib", id)
                 ELSE disk1
        mapped == \E e \in j.alive : e.file = addr /\ e.id \in j.loaded
        opened == \/ mapped
                  \/ /\ env # "noload"
                     /\ \E f \in disk2 : f.addr = addr /\ f.ext = "dylib"
        found == mapped \/ env # "nosym"
    IN IF opened /\ found
       THEN [j EXCEPT !.disk = disk2,
                      !.loaded = @ \cup {id},
                      !.alive = @ \cup {[id |-> id, file |-> addr, pc |-> "alive"]},
                      !.made = id]
       \* exit(EXIT_FAILURE): no destructor runs, the process and the
       \* libraries it had loaded are gone
       ELSE [j EXCEPT !.disk = disk2,
                      !.loaded = {},
                      !.alive = {},
                      !.made = id,
                      !.exited = TRUE]

\* A call of FollowEpsilons, NFA::testMatch or NFA::lower taken one step at
\* a time.  pc is "idle", "running", "done" (the call returned) or "aborted";
\* op and arg name the call; stack holds the frames of the calls under way,
\* the innermost last; stateset is the set FollowEpsilons works on; dfa and
\* cache are those of lower; ret is what the call that returned last
\* returned; res is the answer of testMatch.
NoRun ==
    [pc |-> "idle", op |-> "none", arg |-> <<>>, stack |-> <<>>, stateset |-> {},
     dfa |-> EmptyFA, cache |-> <<>>, ret |-> NoStart, res |-> FALSE,
     abort |-> "none"]

\* The emitters and what they own.  disk holds the files jitfunc<addr>.c
\* and jitfunc<addr>.dylib as [addr, ext, by], by being the emitter that
\* wrote the file; loaded holds the emitters whose dlopen handle is open;
\* alive holds the emitters as [id, file, pc], file being the address in
\* m_filename and pc "alive" or, inside the destructor after dlclose,
\* "closing"; made counts the constructor calls; exited says that
\* exit(EXIT_FAILURE) ended the process.
NoJit == [disk |-> {}, loaded |-> {}, alive |-> {}, made |-> 0, exited |-> FALSE]

\* ------------------------------------------------------------ actions
AddState ==
    /\ Idle
    /\ Len(nfa.m_states) < MaxStates
    /\ nfa' = addState(nfa)
    /\ UNCHANGED <<dfa, call, expr, run, jit>>

SetStart ==
    /\ Idle
    /\ \E s \in StateRefs :
        /\ nfa' = setStart(nfa, s)
        /\ UNCHANGED <<dfa, call, expr, run, jit>>

AddMatch ==
    /\ Idle
    /\ \E s \in StateRefs :
        /\ IF ~addMatch_inserts(nfa, s)
           THEN /\ Called("addMatch", s, <<>>, "assert")
                /\ UNCHANGED nfa
           ELSE /\ nfa' = addMatch(nfa, s)
                /\ UNCHANGED call
        /\ UNCHANGED <<dfa, expr, run, jit>>

AddEdge ==
    /\ Idle
    /\ \E from \in StateRefs, cond \in Labels, to \in StateRefs :
        /\ NumEdges(nfa) < MaxEdges
        /\ IF from \notin Ids(nfa)
           THEN /\ Called("addEdge", <<from, cond, to>>, <<>>, "out_of_range")
                /\ UNCHANGED nfa
           ELSE /\ nfa' = NFAaddEdge(nfa, from, cond, to)
                /\ UNCHANGED call
        /\ UNCHANGED <<dfa, expr, run, jit>>

Closure ==
    /\ Idle
    /\ \E S \in SUBSET Ids(nfa) :
        /\ LET r == FollowEpsilons(nfa, S)
           IN Called("FollowEpsilons", S, r,
                     IF Thrown \in r THEN "out_of_range" ELSE "none")
        /\ UNCHANGED <<nfa, dfa, expr, run, jit>>

TestMatch ==
    /\ Idle
    /\ \E sv \in Words :
        /\ LET r == NFAtestMatch(nfa, sv)
           IN Called("testMatch", sv, r.res, r.abort)
        /\ UNCHANGED <<nfa, dfa, expr, run, jit>>

\* lower() hands back the DFA; the model keeps the cache beside it
Lower ==
    /\ Idle
    /\ \E ord \in Ords(nfa) :
        /\ LET L == lower(nfa, ord)
           IN Called("lower", ord, [dfa |-> L.dfa, cache |-> L.cache], L.abort)
        /\ UNCHANGED <<nfa, dfa, expr, run, jit>>

\* the call returned and the program goes on; an aborted program does not
Return ==
    /\ ~Idle
    /\ call.abort = "none"
    /\ call' = NoCall
    /\ UNCHANGED <<nfa, dfa, expr, run, jit>>

Init ==
    /\ nfa = EmptyFA
    /\ dfa = EmptyFA
    /\ call = NoCall
    /\ expr = <<>>
    /\ run = NoRun
    /\ jit = NoJit

Next ==
    \/ AddState
    \/ SetStart
    \/ AddMatch
    \/ AddEdge
    \/ Closure
    \/ TestMatch
    \/ Lower
    \/ Return

Spec == Init /\ [][Next]_vars

\* ------------------------------------------------------------ a DFA built by hand
DAddState ==
    /\ Idle
    /\ Len(dfa.m_states) < MaxStates
    /\ dfa' = addState(dfa)
    /\ UNCHANGED <<nfa, call, expr, run, jit>>

DSetStart ==
    /\ Idle
    /\ \E s \in StateRefs :
        /\ dfa' = setStart(dfa, s)
        /\ UNCHANGED <<nfa, call, expr, run, jit>>

DAddMatch ==
    /\ Idle
    /\ \E s \in StateRefs :
        /\ IF ~addMatch_inserts(dfa, s)
           THEN /\ Called("addMatch", s, <<>>, "assert")
                /\ UNCHANGED dfa
           ELSE /\ dfa' = addMatch(dfa, s)
                /\ UNCHANGED call
        /\ UNCHANGED <<nfa, expr, run, jit>>

DAddEdge ==
    /\ Idle
    /\ \E from \in StateRefs, cond \in Alphabet, to \in StateRefs :
        /\ NumDfaEdges(dfa) < MaxDfaEdges
        /\ LET e == DFAaddEdge(dfa, from, cond, to)
           IN IF e.abort # "none"
              THEN /\ Called("addEdge", <<from, cond, to>>, <<>>, e.abort)
                   /\ UNCHANGED dfa
              ELSE /\ dfa' = e.fa
                   /\ UNCHANGED call
        /\ UNCHANGED <<nfa, expr, run, jit>>

DTestMatch ==
    /\ Idle
    /\ \E sv \in Words :
        /\ LET r == DFAtestMatch(dfa, sv)
           IN Called("dfaTestMatch", sv, r.res, r.abort)
        /\ UNCHANGED <<nfa, dfa, expr, run, jit>>

\* JitFunction jfn(dfa); jfn(sv);
JitCall ==
    /\ Idle
    /\ \E sv \in Words, addr \in Addrs :
        \E r \in JitOutcomes(dfa, sv) :
            /\ Called("jit", sv, r.res, r.abort)
            \* the constructor ends the process with its files on disk, or
            \* jfn is destroyed at the end of the block: its handle is
            \* closed, its files are removed and its number is free again
            /\ jit' = IF r.abort = "exit" THEN JitCtor(jit, addr, dfa, "ok")
                      ELSE jit
            /\ UNCHANGED <<nfa, dfa, expr, run>>

NextDFA ==
    \/ DAddState
    \/ DSetStart
    \/ DAddMatch
    \/ DAddEdge
    \/ DTestMatch
    \/ JitCall
    \/ Return

SpecDFA == Init /\ [][NextDFA]_vars

\* ------------------------------------------------------------ the regex pipeline
\* auto nfa = parser.toNFA();
ToNFA ==
    /\ Idle
    /\ nfa = EmptyFA
    /\ nfa' = toNFA(expr)
    /\ UNCHANGED <<dfa, call, expr, run, jit>>

RegexTestMatch ==
    /\ Idle
    /\ \E sv \in RegexWords :
        /\ nfa # EmptyFA
        /\ LET r == NFAtestMatch(nfa, sv)
           IN Called("testMatch", sv, r.res, r.abort)
        /\ UNCHANGED <<nfa, dfa, expr, run, jit>>

InitRegex ==
    /\ expr \in Exprs \cup {RegexTestsParser}
    /\ nfa = EmptyFA
    /\ dfa = EmptyFA
    /\ call = NoCall
    /\ run = NoRun
    /\ jit = NoJit

NextRegex ==
    \/ ToNFA
    \/ RegexTestMatch
    \/ Return

SpecRegex == InitRegex /\ [][NextRegex]_vars

\* ------------------------------------------------------------ splicing into a dst
\* the NFAs handed to merge: those of the expressions with one combinator
\* at most, and an NFA that was given no start
MergeSources == {toNFA(e) : e \in ExprsOfSize(0) \cup ExprsOfSize(1)} \cup {EmptyFA}

Merge ==
    /\ Idle
    /\ \E dstref \in StateRefs, src \in MergeSources :
        /\ Len(nfa.m_states) + Len(src.m_states) + 1 <= MaxMergedStates
        /\ LET m == merge(nfa, dstref, src)
           IN /\ Called("merge", [dst |-> nfa, dstref |-> dstref, src |-> src],
                        m.ret, m.abort)
              /\ nfa' = m.fa
        /\ UNCHANGED <<dfa, expr, run, jit>>

NextMerge ==
    \/ AddState
    \/ SetStart
    \/ AddMatch
    \/ Merge
    \/ Return

SpecMerge == Init /\ [][NextMerge]_vars

\* ------------------------------------------------------------ properties
\* the automaton may be matched: it has a state, its start is one of its
\* states, and its accept set is a nonempty set of its states
MatchPre(fa) ==
    /\ fa.m_states # <<>>
    /\ fa.m_start \in Ids(fa)
    /\ fa.m_match # {}
    /\ fa.m_match \subseteq Ids(fa)

\* the targets of the edges of s labelled l
Succ(fa, s, l) == {e[2] : e \in {x \in RangeOf(EdgesOf(fa, s)) : x[1] = l}}

\* the least set that contains S and is closed under epsilon edges
EpsReach(fa, S) ==
    LET RECURSIVE grow(_)
        grow(T) == LET T2 == T \cup UNION {Succ(fa, s, Eps) : s \in T}
                   IN IF T2 = T THEN T ELSE grow(T2)
    IN grow(S)

\* a configuration <<s, i>>: in state s with i bytes of w read; a path of
\* the NFA moves by an epsilon edge, or by the edge labelled w[i + 1]
ConfSucc(fa, w, cf) ==
    {<<t, cf[2]>> : t \in Succ(fa, cf[1], Eps)} \cup
    (IF cf[2] < Len(w)
     THEN {<<t, cf[2] + 1>> : t \in Succ(fa, cf[1], w[cf[2] + 1])}
     ELSE {})

\* some path from the start to an accept state spells w
PathAccepts(fa, w) ==
    LET RECURSIVE grow(_)
        grow(T) == LET T2 == T \cup UNION {ConfSucc(fa, w, cf) : cf \in T}
                   IN IF T2 = T THEN T ELSE grow(T2)
    IN \E cf \in grow({<<fa.m_start, 0>>}) :
           cf[2] = Len(w) /\ cf[1] \in fa.m_match

\* C1: after lower() on an NFA that satisfies the match preconditions, the
\* DFA it returned gives on every input the answer NFA::testMatch gives.
C1_LowerEquivalent ==
    (call.op = "lower" /\ MatchPre(nfa) /\ WellFormed(nfa)) =>
        /\ call.abort = "none"
        /\ \A w \in Words : DFAtestMatch(call.res.dfa, w) = NFAtestMatch(nfa, w)

\* C3: lower() on an NFA with a start state runs to completion, and a DFA
\* state is accepting exactly when its closure set holds an NFA accept state.
C3_LowerMarksAccepting ==
    (call.op = "lower" /\ nfa.m_start \in Ids(nfa) /\ WellFormed(nfa)) =>
        /\ call.abort = "none"
        /\ \A C \in DOMAIN call.res.cache :
              (call.res.cache[C] \in call.res.dfa.m_match)
                  <=> (C \cap nfa.m_match # {})

\* C5: lower() never fails the duplicate-edge assertion of DFA::addEdge, and
\* every state of the DFA it returns has at most one target per byte.
C5_LowerDeterministic ==
    call.op = "lower" =>
        /\ call.abort # "duplicate edge"
        /\ \A d \in Ids(call.res.dfa) :
              /\ DOMAIN EdgesOf(call.res.dfa, d) \subseteq Alphabet
              /\ (call.abort = "none" /\ WellFormed(nfa)) =>
                    \A c \in Alphabet :
                        (c \in DOMAIN EdgesOf(call.res.dfa, d)) <=>
                            \E C \in DOMAIN call.res.cache :
                                /\ call.res.cache[C] = d
                                /\ \E s \in C : Succ(nfa, s, c) # {}

\* lower() ran to completion on an NFA in which one closure set has two
\* edges on one byte
C5_Witness ==
    /\ call.op = "lower"
    /\ call.abort = "none"
    /\ \E C \in DOMAIN call.res.cache : \E c \in Alphabet :
          \/ \E s, t \in C : s # t /\ Succ(nfa, s, c) # {} /\ Succ(nfa, t, c) # {}
          \/ \E s \in C : \E i, j \in 1 .. Len(EdgesOf(nfa, s)) :
                /\ i # j
                /\ EdgesOf(nfa, s)[i][1] = c
                /\ EdgesOf(nfa, s)[j][1] = c

\* C6: NFA::testMatch(w) is true exactly when some path from the start to
\* an accept state spells w, epsilon edges being free.
C6_TestMatchIsPath ==
    (call.op = "testMatch" /\ MatchPre(nfa) /\ WellFormed(nfa)) =>
        /\ call.abort = "none"
        /\ call.res = PathAccepts(nfa, call.arg)

\* a match of a nonempty input that had to leave the start by an epsilon edge
C6_Witness ==
    /\ call.op = "testMatch"
    /\ call.abort = "none"
    /\ WellFormed(nfa)
    /\ call.res = TRUE
    /\ Len(call.arg) = 1
    /\ \A e \in RangeOf(EdgesOf(nfa, nfa.m_start)) : e[1] = Eps

\* C8: FollowEpsilons(S) leaves exactly the least superset of S closed under
\* epsilon edges.
C8_ClosureIsLeast ==
    (call.op = "FollowEpsilons" /\ WellFormed(nfa)) =>
        call.res = EpsReach(nfa, call.arg)

\* a closure of one state that went round a cycle of epsilon edges
C8_Witness ==
    /\ call.op = "FollowEpsilons"
    /\ WellFormed(nfa)
    /\ Cardinality(call.arg) = 1
    /\ Cardinality(call.res) = 2
    /\ \A s \in call.res : Succ(nfa, s, Eps) \cap (call.res \ {s}) # {}

\* C9: FollowEpsilons applied to a result of FollowEpsilons changes nothing.
C9_ClosureIdempotent ==
    (call.op = "FollowEpsilons" /\ WellFormed(nfa)) =>
        FollowEpsilons(nfa, call.res) = call.res

\* a closure that added a state to the set it was given
C9_Witness ==
    /\ call.op = "FollowEpsilons"
    /\ WellFormed(nfa)
    /\ call.arg # {}
    /\ call.res # call.arg

\* every edge target of the DFA is one of its states
WellFormedDFA(fa) ==
    \A s \in Ids(fa) : \A c \in DOMAIN EdgesOf(fa, s) : EdgesOf(fa, s)[c] \in Ids(fa)

\* the states the DFA can be in after the first i bytes of w: one state, or
\* none when some byte on the way had no edge
RECURSIVE StateAfter(_, _, _)
StateAfter(fa, w, i) ==
    IF i = 0 THEN {fa.m_start}
    ELSE {EdgesOf(fa, q)[w[i]] :
            q \in {p \in StateAfter(fa, w, i - 1) : w[i] \in DOMAIN EdgesOf(fa, p)}}

\* C2: the emitted function, run from its first block, answers nonzero on w
\* exactly when DFA::testMatch(w) is true, for a DFA built by hand too.
C2_JitEquivalent ==
    (call.op = "jit" /\ MatchPre(dfa) /\ WellFormedDFA(dfa)) =>
        /\ call.abort = "none"
        /\ call.res = DFAtestMatch(dfa, call.arg).res

\* C7: DFA::testMatch(w) is false once a byte of w has no edge from the
\* state reached so far, and is otherwise true exactly when the state
\* reached after the last byte is an accept state.
C7_DfaWalk ==
    (call.op = "dfaTestMatch" /\ MatchPre(dfa) /\ WellFormedDFA(dfa)) =>
        /\ call.abort = "none"
        /\ (\E i \in 1 .. Len(call.arg) : StateAfter(dfa, call.arg, i) = {})
              => call.res = FALSE
        /\ (\A i \in 1 .. Len(call.arg) : StateAfter(dfa, call.arg, i) # {})
              => call.res = (StateAfter(dfa, call.arg, Len(call.arg))
                                \subseteq dfa.m_match)

\* a walk that got stuck in an accept state with input left, after a step
C7_Witness ==
    /\ call.op = "dfaTestMatch"
    /\ MatchPre(dfa)
    /\ WellFormedDFA(dfa)
    /\ call.res = FALSE
    /\ Len(call.arg) = 2
    /\ StateAfter(dfa, call.arg, 1) # {}
    /\ StateAfter(dfa, call.arg, 1) \subseteq dfa.m_match
    /\ StateAfter(dfa, call.arg, 2) = {}

\* w is in the language of e
RECURSIVE InLang(_, _)
InLang(e, w) ==
    CASE e[1] = "Char" -> w = <<e[2]>>
      [] e[1] = "And" ->
            \E k \in 0 .. Len(w) : /\ InLang(e[2], SubSeq(w, 1, k))
                                   /\ InLang(e[3], SubSeq(w, k + 1, Len(w)))
      [] e[1] = "Or" -> InLang(e[2], w) \/ InLang(e[3], w)
      [] e[1] = "Maybe" -> w = <<>> \/ InLang(e[2], w)
      [] e[1] = "OneOrMore" ->
            \/ InLang(e[2], w)
            \/ \E k \in 1 .. (Len(w) - 1) : /\ InLang(e[2], SubSeq(w, 1, k))
                                            /\ InLang(e, SubSeq(w, k + 1, Len(w)))

\* w is a, then b an even number of times and twice at least, then a
IsABBA(w) ==
    /\ Len(w) >= 4
    /\ Len(w) % 2 = 0
    /\ w[1] = "a"
    /\ w[Len(w)] = "a"
    /\ \A i \in 2 .. (Len(w) - 1) : w[i] = "b"

\* C4: the NFA of an expression matches w exactly when w is in the language
\* of the expression; And(a, And(b, c)) and And(And(a, b), c) match the same
\* inputs; a(bb)+a matches exactly a b^(2k) a with k >= 1.
C4_ToNFALanguage ==
    (call.op = "testMatch" /\ expr # <<>>) =>
        /\ call.abort = "none"
        /\ call.res = InLang(expr, call.arg)
        /\ (expr[1] = "And" /\ expr[3][1] = "And") =>
              call.res = NFAtestMatch(
                            toNFA(<<"And", <<"And", expr[2], expr[3][2]>>, expr[3][3]>>),
                            call.arg).res
        /\ expr = RegexTestsParser => call.res = IsABBA(call.arg)

\* a OneOrMore under an And matched an input that took two rounds of the loop
C4_Witness ==
    /\ call.op = "testMatch"
    /\ expr = <<"And", <<"Char", "a">>,
                       <<"And", <<"OneOrMore", <<"Char", "b">>>>, <<"Char", "a">>>>>>
    /\ call.arg = <<"a", "b", "b", "a">>
    /\ call.res = TRUE

\* C10: merge leaves the accept set and the start of dst alone, and leaves
\* the edges of every state dst had alone, but for the one epsilon edge to
\* the image of src.start that it appends to the edges of the anchor.
C10_MergeFrame ==
    (call.op = "merge" /\ call.abort = "none") =>
        LET before == call.arg.dst
        IN /\ nfa.m_match = before.m_match
           /\ nfa.m_start = before.m_start
           /\ Len(nfa.m_states) >= Len(before.m_states)
           /\ \A s \in Ids(before) :
                 EdgesOf(nfa, s) =
                    IF s = call.arg.dstref
                    THEN Append(EdgesOf(before, s),
                                <<Eps, Len(before.m_states) + call.arg.src.m_start>>)
                    ELSE EdgesOf(before, s)

\* a merge of an NFA with two accept states at an anchor that had an edge,
\* into a dst that had an accept state
C10_Witness ==
    /\ call.op = "merge"
    /\ call.abort = "none"
    /\ call.arg.dstref \in Ids(call.arg.dst)
    /\ EdgesOf(call.arg.dst, call.arg.dstref) # <<>>
    /\ call.arg.dst.m_match \cap Ids(call.arg.dst) # {}
    /\ Cardinality(call.arg.src.m_match) = 2

\* ------------------------------------------------------------ both automata in use
\* an NFA and a DFA given states, a start and accept states, and matched or
\* lowered at any point on the way
NextUse ==
    \/ AddState
    \/ SetStart
    \/ AddMatch
    \/ DAddState
    \/ DSetStart
    \/ DAddMatch
    \/ TestMatch
    \/ DTestMatch
    \/ Lower
    \/ Return

SpecUse == Init /\ [][NextUse]_vars

\* C11: while no operation has aborted, every edge target of the automaton
\* is one of its states.
C11_EdgeTargetsExist == call.abort = "none" => WellFormed(nfa)

\* C12: a step that changes the accept set adds one identifier that was not
\* in it and aborts nothing; an addMatch that aborts was given an identifier
\* the accept set held, and leaves the automaton as it was.
C12_AddMatchOnce ==
    [][/\ nfa'.m_match # nfa.m_match =>
             /\ call' = call
             /\ \E s \in StateRefs : /\ s \notin nfa.m_match
                                     /\ nfa'.m_match = nfa.m_match \cup {s}
       /\ (call'.op = "addMatch" /\ call' # call) =>
             /\ call'.abort = "assert"
             /\ call'.arg \in nfa.m_match
             /\ nfa' = nfa]_vars

\* an identifier was added, another was added after it, and a second
\* addMatch of one of them aborted
C12_Witness ==
    /\ call.op = "addMatch"
    /\ call.abort = "assert"
    /\ call.arg \in nfa.m_match
    /\ Cardinality(nfa.m_match) = 2

\* the three asserts at the head of testMatch hold
UsePre(fa) == fa.m_states # <<>> /\ fa.m_start # NoStart /\ fa.m_match # {}

\* C13: NFA::testMatch and DFA::testMatch abort on an automaton with no
\* state, no start or no accept state, and NFA::lower aborts on an NFA whose
\* start was never set.
C13_PreconditionsAbort ==
    /\ (call.op = "testMatch" /\ ~UsePre(nfa)) => call.abort = "assert"
    /\ (call.op = "dfaTestMatch" /\ ~UsePre(dfa)) => call.abort = "assert"
    /\ (call.op = "lower" /\ nfa.m_start = NoStart) => call.abort = "out_of_range"

\* a testMatch on an NFA with states and a start but no accept state
C13_Witness ==
    /\ call.op = "testMatch"
    /\ nfa.m_states # <<>>
    /\ nfa.m_start \in Ids(nfa)
    /\ nfa.m_match = {}
    /\ call.abort = "assert"

\* ------------------------------------------------------------ the emitters' files
\* the DFAs handed to the constructor: one whose edge leads to its own
\* state, and one whose edge leads to a state that was never added
JitDfas ==
    LET d == addMatch(setStart(addState(EmptyFA), 0), 0)
    IN {DFAaddEdge(d, 0, "a", 0).fa, DFAaddEdge(d, 0, "a", 1).fa}

\* what the host does to a constructor: "ok", no shared object comes out of
\* the compiler run, dlopen fails, or dlsym finds no jitted
JitEnvs == {"ok", "nocompiler", "noload", "nosym"}

\* JitFunction jfn(d), d being the DFA object at addr
JitConstruct ==
    \E addr \in Addrs, d \in JitDfas, env \in JitEnvs :
        /\ ~jit.exited
        /\ jit.made < MaxEmitters
        /\ jit' = JitCtor(jit, addr, d, env)
        /\ UNCHANGED <<nfa, dfa, call, expr, run>>

\* ~JitFunction, first statement: dlclose(m_lib_handle)
JitClose ==
    \E e \in jit.alive :
        /\ ~jit.exited
        /\ e.pc = "alive"
        /\ jit' = [jit EXCEPT !.loaded = @ \ {e.id},
                              !.alive = (@ \ {e}) \cup {[e EXCEPT !.pc = "closing"]}]
        /\ UNCHANGED <<nfa, dfa, call, expr, run>>

\* ~JitFunction, second statement: rm -f of the two files
JitRemove ==
    \E e \in jit.alive :
        /\ ~jit.exited
        /\ e.pc = "closing"
        /\ jit' = [jit EXCEPT !.disk = {f \in @ : f.addr # e.file},
                              !.alive = @ \ {e}]
        /\ UNCHANGED <<nfa, dfa, call, expr, run>>

NextJit ==
    \/ JitConstruct
    \/ JitClose
    \/ JitRemove

SpecJit == Init /\ [][NextJit]_vars

\* C14: once every emitter is gone, by its destructor or because the
\* constructor ended the process, no library is loaded and no file is left
\* on disk; an emitter that is past its dlclose holds no open handle.
C14_NoResidue ==
    /\ jit.alive = {} => (jit.loaded = {} /\ jit.disk = {})
    /\ \A e \in jit.alive : e.pc = "closing" => e.id \notin jit.loaded

\* C15: while an emitter is alive, its .c file and its shared object are on
\* disk and were written by it.
C15_OwnFiles ==
    \A e \in jit.alive :
        e.pc = "alive" =>
            \A ext \in {"c", "dylib"} :
                [addr |-> e.file, ext |-> ext, by |-> e.id] \in jit.disk

\* ------------------------------------------------------------ lowering a regex
\* auto dfa = parser.toNFA().lower(), for the expressions with MaxLowerOps
\* combinators at most
LowerExprs == UNION {ExprsOfSize(k) : k \in 0 .. MaxLowerOps}

InitLower ==
    /\ expr \in LowerExprs
    /\ nfa = EmptyFA
    /\ dfa = EmptyFA
    /\ call = NoCall
    /\ run = NoRun
    /\ jit = NoJit

NextLower ==
    \/ ToNFA
    \/ Lower
    \/ Return

SpecLower == InitLower /\ [][NextLower]_vars

\* the DFAs of two finished runs L1 and L2 of lower are one DFA up to the
\* numbering of the states: the state of a closure set in the one and the
\* state of that set in the other agree on being the start, on accepting,
\* and on the closure set each byte leads to
SameUpToNumbering(L1, L2) ==
    /\ DOMAIN L1.cache = DOMAIN L2.cache
    /\ \A S \in DOMAIN L1.cache :
          LET s1 == L1.cache[S]
              s2 == L2.cache[S]
          IN /\ (s1 = L1.dfa.m_start) <=> (s2 = L2.dfa.m_start)
             /\ (s1 \in L1.dfa.m_match) <=> (s2 \in L2.dfa.m_match)
             /\ DOMAIN EdgesOf(L1.dfa, s1) = DOMAIN EdgesOf(L2.dfa, s2)
             /\ \A c \in DOMAIN EdgesOf(L1.dfa, s1) :
                   \E T \in DOMAIN L1.cache :
                       /\ L1.cache[T] = EdgesOf(L1.dfa, s1)[c]
                       /\ L2.cache[T] = EdgesOf(L2.dfa, s2)[c]

\* C16: a run of lower() that iterates the newEdges maps in other orders
\* ends the way this run ended, and when both return a DFA the two DFAs are
\* one DFA up to the numbering of the states and answer alike on every input.
C16_OrderIndependent ==
    call.op = "lower" =>
        \A ord2 \in Ords(nfa) :
            LET L2 == lower(nfa, ord2)
            IN /\ (L2.abort = "none") <=> (call.abort = "none")
               /\ call.abort = "none" =>
                     /\ SameUpToNumbering(call.res, L2)
                     /\ \A w \in WordsUpTo(MaxRegexLen) :
                           DFAtestMatch(L2.dfa, w) = DFAtestMatch(call.res.dfa, w)

\* a run of lower() that returned a DFA which another order numbers otherwise
C16_Witness ==
    /\ call.op = "lower"
    /\ call.abort = "none"
    /\ \E ord2 \in Ords(nfa) : lower(nfa, ord2).dfa # call.res.dfa

\* the edges of the src state i as merge leaves them on its copy in dst:
\* the edges of i with the targets renumbered, then the edge from the
\* anchor when the copy is the anchor, then the edge to the exit when i is
\* an accept state of src
MergedEdges(dst, dstref, src, i) ==
    LET base == Len(dst.m_states)
        exit == base + Len(src.m_states)
        edges == EdgesOf(src, i)
    IN [k \in 1 .. Len(edges) |-> <<edges[k][1], base + edges[k][2]>>]
       \o (IF dstref = base + i THEN <<<<Eps, base + src.m_start>>>> ELSE <<>>)
       \o (IF i \in src.m_match THEN <<<<Eps, exit>>>> ELSE <<>>)

\* C17: merge adds one state per src state and one exit state; the copy of a
\* src state has the edges of that state, label by label and in their
\* number, on the copies of their targets; one epsilon edge runs from the
\* anchor to the copy of src.start and one from the copy of every src accept
\* state to the exit; the exit is the last state, has no edge, and is what
\* merge returns.
C17_MergeShape ==
    (call.op = "merge" /\ call.abort = "none") =>
        LET before == call.arg.dst
            src == call.arg.src
            base == Len(before.m_states)
            exit == base + Len(src.m_states)
        IN /\ Len(nfa.m_states) = base + Len(src.m_states) + 1
           /\ call.res = exit
           /\ call.res = Len(nfa.m_states) - 1
           /\ EdgesOf(nfa, exit) = <<>>
           /\ \A i \in Ids(src) :
                 EdgesOf(nfa, base + i) = MergedEdges(before, call.arg.dstref, src, i)
           /\ NumEdges(nfa) = NumEdges(before) + NumEdges(src) + 1
                                 + Cardinality(src.m_match)
           /\ <<Eps, base + src.m_start>> \in RangeOf(EdgesOf(nfa, call.arg.dstref))

\* a merge of an NFA with two accept states and a state with two edges,
\* anchored at the copy of a state of that NFA
C17_Witness ==
    /\ call.op = "merge"
    /\ call.abort = "none"
    /\ Cardinality(call.arg.src.m_match) = 2
    /\ \E i \in Ids(call.arg.src) : Len(EdgesOf(call.arg.src, i)) = 2
    /\ call.arg.dstref >= Len(call.arg.dst.m_states)

\* the states of the DFA that a walk from its start comes to
DfaReach(fa) ==
    LET RECURSIVE grow(_)
        grow(T) == LET T2 == T \cup UNION {{EdgesOf(fa, s)[c]
                                                  : c \in DOMAIN EdgesOf(fa, s)}
                                              : s \in T \cap Ids(fa)}
                   IN IF T2 = T THEN T ELSE grow(T2)
    IN grow({fa.m_start})

\* C20: the DFA lower() returns has start state 0, every state of it is
\* reached from the start and is the state of a nonempty closure set, and
\* every edge target is a state of it; the emitted function, which enters at
\* its first block, then answers as DFA::testMatch does.
C20_LoweredShape ==
    (call.op = "lower" /\ call.abort = "none") =>
        LET d == call.res.dfa
        IN /\ d.m_start = 0
           /\ DfaReach(d) = Ids(d)
           /\ \A s \in Ids(d) : \E C \in DOMAIN call.res.cache :
                 C # {} /\ call.res.cache[C] = s
           /\ {} \notin DOMAIN call.res.cache
           /\ WellFormedDFA(d)
           /\ d.m_match # {} =>
                 \A w \in WordsUpTo(MaxRegexLen) :
                     JitOutcomes(d, w) = {DFAtestMatch(d, w)}

\* lower() returned a DFA of three states or more with an accept state
C20_Witness ==
    /\ call.op = "lower"
    /\ call.abort = "none"
    /\ Len(call.res.dfa.m_states) >= 3
    /\ call.res.dfa.m_match # {}

\* ------------------------------------------------------------ calls, step by step
\* A frame of the stack: f is "closure" (FollowEpsilons, in its loop over
\* copy, set being what is left of copy), "eps" (the lambda of
\* FollowEpsilons on state n, i being the edge it looks at next and 0
\* before the test of stateset.count), "testMatch" (keys being sv and i the
\* byte it reads next) or "lower" (the lambda of lower: ph is "closing"
\* while FollowEpsilons(states) runs, "edges" in the loop over newEdges and
\* "await" while the recurse(cstates) of an edge runs; set is states, n is
\* newState, keys are the keys of newEdges in the order of the loop and i
\* is the key it visits next).
Frame(f, ph, set, n, keys, i) ==
    [f |-> f, ph |-> ph, set |-> set, n |-> n, keys |-> keys, i |-> i]

Top == run.stack[Len(run.stack)]

Pop(stack) == SubSeq(stack, 1, Len(stack) - 1)

SetTop(stack, frame) == [stack EXCEPT ![Len(stack)] = frame]

\* the depth the stack of a call on fa stays under: one frame of lower per
\* set of states, one of testMatch or FollowEpsilons, and one of the lambda
\* of FollowEpsilons per state and one more
StackCap(fa) == 2 ^ Len(fa.m_states) + Len(fa.m_states) + 3

\* stateset.count(state)
eps_seen(stateset, state) == state \in stateset

\* a test of cache.count(states) that never finds the set
lower_hit_never(cache, states) == FALSE

\* cache.count(states)
lower_hit(cache, states) == states \in DOMAIN cache

Running(f) == run.pc = "running" /\ run.stack # <<>> /\ Top.f = f

Aborted(abort) == [run EXCEPT !.pc = "aborted", !.abort = abort]

\* nfa.FollowEpsilons(S)
StartClosure ==
    /\ Idle
    /\ \E S \in SUBSET (Ids(nfa) \cap StateRefs) :
        /\ run.pc = "idle"
        /\ run' = [NoRun EXCEPT !.pc = "running", !.op = "FollowEpsilons", !.arg = S,
                                !.stack = <<Frame("closure", "", S, 0, <<>>, 0)>>]
        /\ UNCHANGED <<nfa, dfa, call, expr, jit>>

\* nfa.testMatch(sv): the asserts, and the call FollowEpsilons(currentStates)
StartTestMatch ==
    /\ Idle
    /\ \E sv \in Words :
        /\ run.pc = "idle"
        /\ run' = IF ~(nfa.m_states # <<>> /\ nfa.m_start # NoStart /\ nfa.m_match # {})
                  THEN [NoRun EXCEPT !.pc = "aborted", !.op = "testMatch", !.arg = sv,
                                     !.abort = "assert"]
                  ELSE [NoRun EXCEPT !.pc = "running", !.op = "testMatch", !.arg = sv,
                                     !.stack = <<Frame("testMatch", "", {}, 0, sv, 1),
                                                 Frame("closure", "", {nfa.m_start},
                                                       0, <<>>, 0)>>]
        /\ UNCHANGED <<nfa, dfa, call, expr, jit>>

\* nfa.lower(): the call recurse({m_start}) and its FollowEpsilons(states)
StartLower ==
    /\ Idle
    /\ run.pc = "idle"
    /\ run' = [NoRun EXCEPT !.pc = "running", !.op = "lower",
                            !.stack = <<Frame("lower", "closing", {}, NoStart, <<>>, 0),
                                        Frame("closure", "", {nfa.m_start}, 0, <<>>, 0)>>]
    /\ UNCHANGED <<nfa, dfa, call, expr, jit>>

\* the loop over copy: recurse(state) for the next state, or the return
ClosureNext ==
    /\ Running("closure")
    /\ IF Top.set = {}
       THEN run' = [run EXCEPT !.stack = Pop(@)]
       ELSE /\ Len(run.stack) < StackCap(nfa)
            /\ LET state == Min(Top.set)
               IN run' = [run EXCEPT !.stack =
                             Append(SetTop(@, [Top EXCEPT !.set = @ \ {state}]),
                                    Frame("eps", "", {}, state, <<>>, 0))]
    /\ UNCHANGED <<nfa, dfa, call, expr, jit>>

\* the head of the lambda of FollowEpsilons: return when the state is in
\* stateset; insert it; m_states.at(state)
EpsEnter ==
    /\ Running("eps")
    /\ Top.i = 0
    /\ run' = IF eps_seen(run.stateset, Top.n)
              THEN [run EXCEPT !.stack = Pop(@)]
              ELSE IF Top.n \notin Ids(nfa)
              THEN [Aborted("out_of_range") EXCEPT !.stateset = @ \cup {Top.n}]
              ELSE [run EXCEPT !.stateset = @ \cup {Top.n},
                               !.stack = SetTop(@, [Top EXCEPT !.i = 1])]
    /\ UNCHANGED <<nfa, dfa, call, expr, jit>>

\* the loop over the edges of the state: recurse(edge.second) for an
\* epsilon edge
EpsEdge ==
    /\ Running("eps")
    /\ Top.i >= 1
    /\ LET edges == EdgesOf(nfa, Top.n)
       IN IF Top.i > Len(edges)
          THEN run' = [run EXCEPT !.stack = Pop(@)]
          ELSE IF edges[Top.i][1] = Eps
          THEN /\ Len(run.stack) < StackCap(nfa)
               /\ run' = [run EXCEPT !.stack =
                             Append(SetTop(@, [Top EXCEPT !.i = @ + 1]),
                                    Frame("eps", "", {}, edges[Top.i][2], <<>>, 0))]
          ELSE run' = [run EXCEPT !.stack = SetTop(@, [Top EXCEPT !.i = @ + 1])]
    /\ UNCHANGED <<nfa, dfa, call, expr, jit>>

\* testMatch after a FollowEpsilons returned: the next byte of sv, its
\* nextStates and FollowEpsilons(nextStates); or, with no byte left, the
\* loop over currentStates and the return
TestMatchStep ==
    /\ Running("testMatch")
    /\ IF Top.i > Len(Top.keys)
       THEN run' = [run EXCEPT !.pc = "done", !.stack = <<>>,
                               !.res = \E state \in run.stateset : state \in nfa.m_match]
       ELSE IF ~(run.stateset \subseteq Ids(nfa))
       THEN run' = Aborted("out_of_range")
       ELSE /\ Len(run.stack) < StackCap(nfa)
            /\ run' = [run EXCEPT
                          !.stateset = {},
                          !.stack = Append(SetTop(@, [Top EXCEPT !.i = @ + 1]),
                                           Frame("closure", "",
                                                 NextStates(nfa, run.stateset, Top.keys[Top.i]),
                                                 0, <<>>, 0))]
    /\ UNCHANGED <<nfa, dfa, call, expr, jit>>

\* the lambda of lower after FollowEpsilons(states) returned: the cache
\* lookup; on a miss addState, cache.insert, the loop that fills newEdges
\* and calls addMatch
LowerEnter ==
    /\ Running("lower")
    /\ Top.ph = "closing"
    /\ LET states == run.stateset
       IN IF ~(states \subseteq Ids(nfa))
          THEN run' = Aborted("out_of_range")
          ELSE IF lower_hit(run.cache, states)
          THEN run' = [run EXCEPT !.stack = Pop(@), !.ret = run.cache[states]]
          ELSE \E p \in (IF Cardinality(lower_bytes(nfa, states)) >= 2
                         THEN Perms(AlphabetSeq) ELSE {AlphabetSeq}) :
                  LET newState == Len(run.dfa.m_states)
                      L1 == [dfa |-> addState(run.dfa),
                             cache |-> (states :> newState) @@ run.cache,
                             abort |-> "none"]
                      L2 == lower_match(nfa, L1, newState, states)
                  IN run' = IF L2.abort # "none"
                            THEN [Aborted(L2.abort) EXCEPT !.dfa = L2.dfa,
                                                           !.cache = L2.cache]
                            ELSE [run EXCEPT
                                     !.dfa = L2.dfa,
                                     !.cache = L2.cache,
                                     !.stack = SetTop(@,
                                         Frame("lower", "edges", states, newState,
                                               lower_newEdgeKeys(nfa, states, states :> p),
                                               1))]
    /\ UNCHANGED <<nfa, dfa, call, expr, jit>>

\* the loop over newEdges: the call recurse(cstates) for the next key, or
\* the return of newState
LowerEdge ==
    /\ Running("lower")
    /\ Top.ph = "edges"
    /\ IF Top.i > Len(Top.keys)
       THEN run' = [run EXCEPT !.stack = Pop(@), !.ret = Top.n]
       ELSE /\ Len(run.stack) + 1 < StackCap(nfa)
            /\ run' = [run EXCEPT
                          !.stateset = {},
                          !.stack = SetTop(@, [Top EXCEPT !.ph = "await"])
                                    \o <<Frame("lower", "closing", {}, NoStart, <<>>, 0),
                                         Frame("closure", "",
                                               NextStates(nfa, Top.set, Top.keys[Top.i]),
                                               0, <<>>, 0)>>]
    /\ UNCHANGED <<nfa, dfa, call, expr, jit>>

\* dfa.addEdge(newState, c, <what recurse(cstates) returned>)
LowerAddEdge ==
    /\ Running("lower")
    /\ Top.ph = "await"
    /\ LET e == DFAaddEdge(run.dfa, Top.n, Top.keys[Top.i], run.ret)
       IN run' = IF e.abort # "none" THEN Aborted(e.abort)
                 ELSE [run EXCEPT !.dfa = e.fa,
                                  !.stack = SetTop(@, [Top EXCEPT !.ph = "edges",
                                                                  !.i = @ + 1])]
    /\ UNCHANGED <<nfa, dfa, call, expr, jit>>

\* the outermost call returned: FollowEpsilons is over; lower sets the
\* start of the DFA and returns it
RunFinish ==
    /\ run.pc = "running"
    /\ run.stack = <<>>
    /\ run' = IF run.op = "lower"
              THEN [run EXCEPT !.pc = "done", !.dfa = setStart(@, run.ret)]
              ELSE [run EXCEPT !.pc = "done"]
    /\ UNCHANGED <<nfa, dfa, call, expr, jit>>

\* the program goes on after the call
RunReturn ==
    /\ run.pc = "done"
    /\ run' = NoRun
    /\ UNCHANGED <<nfa, dfa, call, expr, jit>>

RunStep ==
    \/ ClosureNext
    \/ EpsEnter
    \/ EpsEdge
    \/ TestMatchStep
    \/ LowerEnter
    \/ LowerEdge
    \/ LowerAddEdge
    \/ RunFinish

\* the NFAs of the expressions that loop: OneOrMore, and OneOrMore and
\* Maybe inside one another
StepExprs ==
    {<<"OneOrMore", <<"Char", "a">>>>,
     <<"OneOrMore", <<"Maybe", <<"Char", "a">>>>>>,
     <<"Maybe", <<"OneOrMore", <<"Char", "b">>>>>>,
     <<"OneOrMore", <<"OneOrMore", <<"Char", "a">>>>>>}

InitSteps ==
    /\ expr \in StepExprs \cup {<<>>}
    /\ nfa = EmptyFA
    /\ dfa = EmptyFA
    /\ call = NoCall
    /\ run = NoRun
    /\ jit = NoJit

\* the NFA is built by hand or made from the expression, and no call
\* is under way while it is being built
BuildStep ==
    /\ run.pc = "idle"
    /\ \/ expr = <<>> /\ AddState
       \/ expr = <<>> /\ SetStart
       \/ expr = <<>> /\ AddMatch
       \/ expr = <<>> /\ AddEdge
       \/ expr # <<>> /\ ToNFA

NextSteps ==
    \/ BuildStep
    \/ StartClosure
    \/ StartTestMatch
    \/ StartLower
    \/ RunStep
    \/ RunReturn

\* a call under way is not left waiting: the program is one thread
SpecSteps == InitSteps /\ [][NextSteps]_vars /\ WF_vars(RunStep)

\* ---------------------------------------------- lower() alone, step by step
\* the steps of a call of lower(): those of recurse and of FollowEpsilons
LowerRunStep ==
    \/ ClosureNext
    \/ EpsEnter
    \/ EpsEdge
    \/ LowerEnter
    \/ LowerEdge
    \/ LowerAddEdge
    \/ RunFinish

\* a program that builds an NFA and calls only lower() on it
NextLowerSteps ==
    \/ BuildStep
    \/ StartLower
    \/ LowerRunStep
    \/ RunReturn

SpecLowerSteps == InitSteps /\ [][NextLowerSteps]_vars /\ WF_vars(LowerRunStep)

\* every call that was begun comes to an end: it returns or the program
\* aborts
RunsEnd == (run.pc = "running") ~> (run.pc \in {"done", "aborted"})

\* a call on an NFA that may be matched and has its edge targets in range
\* aborts only in lower, on the assert of addMatch
AbortsOnlyInLower ==
    (run.pc = "aborted" /\ MatchPre(nfa) /\ WellFormed(nfa)) =>
        (run.op = "lower" /\ run.abort = "assert")

\* the stack of a call stays under StackCap: no step waits for room on it
StackInBounds ==
    run.pc = "running" => (Len(run.stack) < StackCap(nfa) /\ ENABLED RunStep)

\* C18: a call of FollowEpsilons, testMatch or lower on an NFA that may be
\* matched and has its edge targets in range eventually returns.
C18_EveryCallReturns ==
    (run.pc = "running" /\ MatchPre(nfa) /\ WellFormed(nfa)) ~> (run.pc = "done")

\* C19: at every point of lower() the cache maps different closure sets to
\* different DFA states, every DFA state is the state of one cached set, and
\* the cached sets are closure sets that lower comes to from the start; the
\* DFA lower returns has one state for each of those closure sets, no more
\* than 2^|NFA states|, and is the DFA of lower().
C19_CacheOneToOne ==
    run.op = "lower" =>
        LET c == run.cache
            d == run.dfa
        IN /\ \A S, T \in DOMAIN c : c[S] = c[T] => S = T
           /\ {c[S] : S \in DOMAIN c} = Ids(d)
           /\ Len(d.m_states) = Cardinality(DOMAIN c)
           /\ DOMAIN c \subseteq lower_sets(nfa)
           /\ run.pc = "done" =>
                 /\ DOMAIN c = lower_sets(nfa)
                 /\ Len(d.m_states) = Cardinality(lower_sets(nfa))
                 /\ Len(d.m_states) <= 2 ^ Len(nfa.m_states)
                 /\ \E ord \in Ords(nfa) :
                       lower(nfa, ord) = [dfa |-> d, cache |-> c, abort |-> "none"]

\* lower() is under way with two sets in the cache, and the recurse of an
\* edge has just returned a state that the cache held
C19_Witness ==
    /\ Running("lower")
    /\ Top.ph = "await"
    /\ Cardinality(DOMAIN run.cache) >= 2
    /\ run.ret <= Top.n

====
